---- MODULE Spec2Model ----
(***************************************************************************)
(* Marketing Schedule Tracker (MarketingTracker component,                 *)
(* src/unnamed/part_001): the derivation of normalized events and          *)
(* scheduled tasks from the loaded rows, the channel classifier, the       *)
(* cadence-matrix group key, and the component's state (rows, doneKeys,    *)
(* the persisted copy of doneKeys, the sheet fetch).                       *)
(*                                                                         *)
(* A JavaScript string is a sequence of one-character strings, so that     *)
(* the regular expressions, toLowerCase, trim, lastIndexOf and the         *)
(* template strings of the source act on characters as the code does.      *)
(* A Date is the number of the local calendar day (days since 1970-01-01): *)
(* every date cell of the model is a date-only text, which date-fns parses *)
(* to local midnight, and addDays keeps local midnight.                    *)
(***************************************************************************)
EXTENDS Integers, Sequences, FiniteSets, TLC

VARIABLES
    rows,       \* useState(sampleRows): the loaded rows
    data,       \* useMemo(..., [rows]): the normalized events of rows
    tasks,      \* useMemo(..., [data]): the tasks of data, by date
    doneKeys,   \* useState(...): the list of completed task idKeys
    stored,     \* localStorage "taskDoneKeys" (the list JSON.stringify wrote)
    today,      \* new Date() of the current render, as a day number
    fetch,      \* the sheet fetch of this mount: "mounted", "pending", "idle"
    alerted,    \* whether fetchSheet's alert(...) was shown in this mount
    response,   \* how the fetch of this mount was answered: "none", "csv",
                \* "error" (an error response with a body), "rejected"
    oddToggles, \* history: the keys whose checkbox was toggled an odd number
                \* of times since doneKeys was empty
    arg,        \* input of the function that is applied
    res         \* its result: [done |-> FALSE] before it ran

vars ==
    <<rows, data, tasks, doneKeys, stored, today, fetch, alerted, response, oddToggles,
      arg, res>>

\* ------------------------------------------------------------------------
\* Characters and strings
\* ------------------------------------------------------------------------

UpperSeq ==
    <<"A","B","C","D","E","F","G","H","I","J","K","L","M",
      "N","O","P","Q","R","S","T","U","V","W","X","Y","Z">>

LowerSeq ==
    <<"a","b","c","d","e","f","g","h","i","j","k","l","m",
      "n","o","p","q","r","s","t","u","v","w","x","y","z">>

DigitSeq == <<"0","1","2","3","4","5","6","7","8","9">>

Upper == {UpperSeq[i] : i \in 1..26}

Lower == {LowerSeq[i] : i \in 1..26}

Digits == {DigitSeq[i] : i \in 1..10}

\* \w of a JavaScript regular expression
WordChars == Upper \cup Lower \cup Digits \cup {"_"}

\* \s of a JavaScript regular expression, and what trim() removes
WhiteSpace == {" ", "\t", "\n", "\r"}

LowerOf == [c \in Upper |-> LowerSeq[CHOOSE i \in 1..26 : UpperSeq[i] = c]]

UpperOf == [c \in Lower |-> UpperSeq[CHOOSE i \in 1..26 : LowerSeq[i] = c]]

toLowerCaseChar(c) == IF c \in Upper THEN LowerOf[c] ELSE c

toUpperCaseChar(c) == IF c \in Lower THEN UpperOf[c] ELSE c

toLowerCase(s) == [i \in 1..Len(s) |-> toLowerCaseChar(s[i])]

toUpperCase(s) == [i \in 1..Len(s) |-> toUpperCaseChar(s[i])]

\* s.slice(from) and s.slice(from, to) with 0-based JavaScript indexes
sliceFrom(s, from) == SubSeq(s, from + 1, Len(s))

slice(s, from, to) == SubSeq(s, from + 1, to)

RECURSIVE trimStart(_)
trimStart(s) ==
    IF s # <<>> /\ Head(s) \in WhiteSpace THEN trimStart(Tail(s)) ELSE s

RECURSIVE trimEnd(_)
trimEnd(s) ==
    IF s # <<>> /\ s[Len(s)] \in WhiteSpace
    THEN trimEnd(SubSeq(s, 1, Len(s) - 1))
    ELSE s

trim(s) == trimEnd(trimStart(s))

\* s.lastIndexOf(sub): the greatest 0-based index where sub starts, or -1
lastIndexOf(s, sub) ==
    LET hits == {i \in 0..(Len(s) - Len(sub)) : SubSeq(s, i + 1, i + Len(sub)) = sub}
    IN  IF hits = {} THEN -1 ELSE CHOOSE i \in hits : \A j \in hits : j <= i

\* ------------------------------------------------------------------------
\* Regular expressions: RegExp.prototype.test for patterns of the form
\* \b(alt1|alt2|...)\b, each alternative a sequence of items: one character
\* of a class ("one"), an optional one ("opt", x?), any number ("star", x*)
\* ------------------------------------------------------------------------

Lit(s) == [i \in 1..Len(s) |-> [k |-> "one", cs |-> {s[i]}]]

Opt(set) == <<[k |-> "opt", cs |-> set]>>

Star(set) == <<[k |-> "star", cs |-> set]>>

IsWordAt(s, i) == i >= 1 /\ i <= Len(s) /\ s[i] \in WordChars

\* \b between s[i-1] and s[i] (1-based; i ranges over 1..Len(s)+1)
WordBoundary(s, i) == IsWordAt(s, i - 1) # IsWordAt(s, i)

\* the positions where a match of p[j..] that starts at s[i] can end
RECURSIVE MatchEnds(_, _, _, _)
MatchEnds(s, i, p, j) ==
    IF j > Len(p) THEN {i}
    ELSE LET it   == p[j]
             here == i <= Len(s) /\ s[i] \in it.cs
         IN  CASE it.k = "one"  ->
                    IF here THEN MatchEnds(s, i + 1, p, j + 1) ELSE {}
               [] it.k = "opt"  ->
                    MatchEnds(s, i, p, j + 1)
                    \cup (IF here THEN MatchEnds(s, i + 1, p, j + 1) ELSE {})
               [] it.k = "star" ->
                    MatchEnds(s, i, p, j + 1)
                    \cup (IF here THEN MatchEnds(s, i + 1, p, j) ELSE {})

\* /\b(alts)\b/.test(s)
TestWord(alts, s) ==
    \E p \in alts : \E i \in 1..(Len(s) + 1) :
        /\ WordBoundary(s, i)
        /\ \E e \in MatchEnds(s, i, p, 1) : WordBoundary(s, e)

\* ------------------------------------------------------------------------
\* Channel classifier (data, lines 226-243)
\* ------------------------------------------------------------------------

NoPrefix == Lit(<<"n","o">>) \o Opt({"-"} \cup WhiteSpace)

MailWord == Lit(<<"m","a","i","l">>)

TextWords == {Lit(<<"t","e","x","t">>), Lit(<<"s","m","s">>)}

VmWords ==
    { Lit(<<"v","o","i","c","e","m","a","i","l">>),
      Lit(<<"v","o","i","c","e">>) \o Star(WhiteSpace) \o Lit(<<"m","a","i","l">>),
      Lit(<<"v","m">>),
      Lit(<<"v","m","a","i","l">>) }

\* /\bno[-\s]?mail\b/
hasNoMailTag(src) == TestWord({NoPrefix \o MailWord}, src)

\* /\bmail\b/
hasMailToken(src) == TestWord({MailWord}, src)

\* /\b(text|sms)\b/
hasTextToken(src) == TestWord(TextWords, src)

\* /\b(voicemail|voice\s*mail|vm|vmail)\b/
hasVmToken(src) == TestWord(VmWords, src)

\* /\b(mail|text|sms|voicemail|voice\s*mail|vm|vmail)\b/
anyToken(src) == TestWord({MailWord} \cup TextWords \cup VmWords, src)

\* /\bno[-\s]?(text|sms)\b/
noText(src) == TestWord({NoPrefix \o w : w \in TextWords}, src)

\* /\bno[-\s]?(voicemail|voice\s*mail|vm|vmail)\b/
noVM(src) == TestWord({NoPrefix \o w : w \in VmWords}, src)

\* src = tagsStr + ' ' + channelsStr, both lower-cased
srcOf(tags, channels) == toLowerCase(tags) \o <<" ">> \o toLowerCase(channels)

\* lines 236-241 without the two assignments of lines 242-243
channelFlagsNoNegation(nm, mailTok, textTok, vmTok, any, nt, nv) ==
    LET mail1 == mailTok /\ ~nm
        mail2 == IF ~any THEN ~nm ELSE mail1
        text2 == IF ~any THEN TRUE ELSE textTok
        vm2   == IF ~any THEN TRUE ELSE vmTok
    IN  [hasMail |-> mail2,
         hasText |-> IF mail2 /\ ~nt THEN TRUE ELSE text2,
         hasVM   |-> IF mail2 /\ ~nv THEN TRUE ELSE vm2]

\* lines 236-243: the let hasMail / hasText / hasVM assignments, in the
\* order of the code, as a function of the seven regular-expression tests
channelFlags(nm, mailTok, textTok, vmTok, any, nt, nv) ==
    LET mail1 == mailTok /\ ~nm
        text1 == textTok
        vm1   == vmTok
        mail2 == IF ~any THEN ~nm ELSE mail1
        text2 == IF ~any THEN TRUE ELSE text1
        vm2   == IF ~any THEN TRUE ELSE vm1
        text3 == IF mail2 /\ ~nt THEN TRUE ELSE text2
        vm3   == IF mail2 /\ ~nv THEN TRUE ELSE vm2
        text4 == IF nt THEN FALSE ELSE text3
        vm4   == IF nv THEN FALSE ELSE vm3
    IN  [hasMail |-> mail2, hasText |-> text4, hasVM |-> vm4]

\* lines 228-243
classify(tags, channels) ==
    LET src == srcOf(tags, channels)
    IN  channelFlags(hasNoMailTag(src), hasMailToken(src), hasTextToken(src),
                     hasVmToken(src), anyToken(src), noText(src), noVM(src))

\* ------------------------------------------------------------------------
\* Cadence matrix group key (lines 727-737) and the copy of it that the
\* runtime checks assert on (build, lines 110-122)
\* ------------------------------------------------------------------------

Dash3 == <<" ", "-", " ">>

\* the first character of p whose upper-cased form lies in 'A'..'Z', upper-cased
RECURSIVE firstLetter(_)
firstLetter(p) ==
    IF p = <<>> THEN <<>>
    ELSE IF toUpperCaseChar(Head(p)) \in Upper
         THEN <<toUpperCaseChar(Head(p))>>
         ELSE firstLetter(Tail(p))

\* a base name that keeps the suffix
stripSuffixNever(campaign) == trim(campaign)

\* lines 727-733: the campaign with a trailing " - X" (X one letter) removed
stripSuffix(campaign) ==
    LET base == trim(campaign)
        idx  == lastIndexOf(base, Dash3)
    IN  IF idx > -1 /\ idx + 3 <= Len(base)
        THEN LET suf == trim(sliceFrom(base, idx + 3))
                 C   == toUpperCase(suf)
             IN  IF Len(suf) = 1 /\ C[1] \in Upper
                 THEN slice(base, 0, idx)
                 ELSE base
        ELSE base

\* lines 727-737: const key = letter ? (base + ' - ' + letter) : base
groupKey(campaign, part) ==
    LET base   == stripSuffix(campaign)
        letter == firstLetter(part)
    IN  IF letter # <<>> THEN base \o Dash3 \o letter ELSE base

\* lines 110-122: const build = (campaign, part) => ...
build(campaign, part) ==
    LET base0 == trim(campaign)
        idx   == lastIndexOf(base0, Dash3)
        suf   == trim(sliceFrom(base0, idx + 3))
        base  == IF /\ idx > -1
                    /\ idx + 3 <= Len(base0)
                    /\ Len(suf) = 1
                    /\ toUpperCase(suf)[1] \in Upper
                 THEN slice(base0, 0, idx)
                 ELSE base0
        letter == firstLetter(part)
    IN  IF letter # <<>> THEN base \o Dash3 \o letter ELSE base

\* ------------------------------------------------------------------------
\* Dates: date-fns parse / format / addDays / startOfWeek on day numbers
\* ------------------------------------------------------------------------

\* tryParseDate's null
NoDate == -1

DigitVal == [c \in Digits |-> (CHOOSE i \in 1..10 : DigitSeq[i] = c) - 1]

AllDigits(s) == \A i \in 1..Len(s) : s[i] \in Digits

RECURSIVE ToNat(_)
ToNat(s) ==
    IF s = <<>> THEN 0
    ELSE 10 * ToNat(SubSeq(s, 1, Len(s) - 1)) + DigitVal[s[Len(s)]]

\* the fields of s between occurrences of the character sep
RECURSIVE Split(_, _)
Split(s, sep) ==
    LET cut == {i \in 1..Len(s) : s[i] = sep}
    IN  IF cut = {} THEN <<s>>
        ELSE LET i == CHOOSE c \in cut : \A d \in cut : c <= d
             IN  <<SubSeq(s, 1, i - 1)>> \o Split(SubSeq(s, i + 1, Len(s)), sep)

IsLeapYear(y) == (y % 4 = 0 /\ y % 100 # 0) \/ y % 400 = 0

DaysInMonth(y, m) ==
    IF m = 2 THEN (IF IsLeapYear(y) THEN 29 ELSE 28)
    ELSE IF m \in {4, 6, 9, 11} THEN 30 ELSE 31

\* the day number of the calendar day y-m-d (0 = 1970-01-01)
DaysFromCivil(y, m, d) ==
    LET yy  == IF m <= 2 THEN y - 1 ELSE y
        era == yy \div 400
        yoe == yy - era * 400
        mp  == IF m > 2 THEN m - 3 ELSE m + 9
        doy == (153 * mp + 2) \div 5 + d - 1
        doe == yoe * 365 + yoe \div 4 - yoe \div 100 + doy
    IN  era * 146097 + doe - 719468

\* the calendar day <<y, m, d>> of a day number
CivilFromDays(n) ==
    LET z   == n + 719468
        era == z \div 146097
        doe == z - era * 146097
        yoe == (doe - doe \div 1460 + doe \div 36524 - doe \div 146096) \div 365
        doy == doe - (365 * yoe + yoe \div 4 - yoe \div 100)
        mp  == (5 * doy + 2) \div 153
        d   == doy - (153 * mp + 2) \div 5 + 1
        m   == IF mp < 10 THEN mp + 3 ELSE mp - 9
        y   == yoe + era * 400 + (IF m <= 2 THEN 1 ELSE 0)
    IN  <<y, m, d>>

\* a parsed year, month, day as a Date, or NoDate when the fields are not
\* digits of the widths the format tokens take or name no calendar day
civilDate(ys, ms, ds) ==
    IF /\ AllDigits(ys) /\ Len(ys) \in 1..4
       /\ AllDigits(ms) /\ Len(ms) \in 1..2
       /\ AllDigits(ds) /\ Len(ds) \in 1..2
    THEN LET y == ToNat(ys)
             m == ToNat(ms)
             d == ToNat(ds)
         IN  IF m \in 1..12 /\ d >= 1 /\ d <= DaysInMonth(y, m)
             THEN DaysFromCivil(y, m, d)
             ELSE NoDate
    ELSE NoDate

\* parse(asStr, "yyyy-MM-dd", new Date())
parseYMD(asStr) ==
    LET f == Split(asStr, "-")
    IN  IF Len(f) = 3 THEN civilDate(f[1], f[2], f[3]) ELSE NoDate

\* parse(asStr, "M/d/yyyy", new Date()) and "MM/dd/yyyy"
parseMDY(asStr) ==
    LET f == Split(asStr, "/")
    IN  IF Len(f) = 3 THEN civilDate(f[3], f[1], f[2]) ELSE NoDate

\* lines 55-79.  Exact for the date cells of this model: the empty cell,
\* yyyy-MM-dd and M/d/yyyy dates (the yyyy token takes one to four digits, so
\* the year of '8/26/25' is 25), and texts without a digit, which no format,
\* parseISO or new Date(...) accepts.
tryParseDate(value) ==
    IF value = <<>> THEN NoDate
    ELSE LET asStr == trim(value)
         IN  IF parseYMD(asStr) # NoDate THEN parseYMD(asStr)
             ELSE parseMDY(asStr)

RECURSIVE padStart(_, _, _)
padStart(s, width, c) == IF Len(s) >= width THEN s ELSE padStart(<<c>> \o s, width, c)

RECURSIVE NatToStr(_)
NatToStr(n) ==
    IF n < 10 THEN <<DigitSeq[n + 1]>>
    ELSE NatToStr(n \div 10) \o <<DigitSeq[(n % 10) + 1]>>

\* format(date, 'yyyy-MM-dd')
formatYMD(date) ==
    LET c == CivilFromDays(date)
    IN  padStart(NatToStr(c[1]), 4, "0") \o <<"-">>
        \o padStart(NatToStr(c[2]), 2, "0") \o <<"-">>
        \o padStart(NatToStr(c[3]), 2, "0")

addDays(date, n) == date + n

\* startOfWeek(d, { weekStartsOn: 1 }): 1970-01-01 was a Thursday
startOfWeek(d) == d - ((d + 3) % 7)

\* endOfWeek(d, { weekStartsOn: 1 }): the last day of that week
endOfWeek(d) == startOfWeek(d) + 6

\* ------------------------------------------------------------------------
\* Rows and normalized events (data, lines 222-264)
\* ------------------------------------------------------------------------

\* A row is a function from column names to cells (strings).  r.X || '' :
\* a missing column (undefined) and an empty cell are both falsy.
Field(r, k) == IF k \in DOMAIN r THEN r[k] ELSE <<>>

\* r.X || dflt
FieldOr(r, k, dflt) == IF Field(r, k) # <<>> THEN Field(r, k) ELSE dflt

\* Number(cell) || 0 for a cell that is empty, an optionally signed run of
\* digits, or no number at all (NaN || 0 is 0)
NumberOr0(cell) ==
    LET s    == trim(cell)
        sign == s # <<>> /\ s[1] \in {"-", "+"}
        body == IF sign THEN Tail(s) ELSE s
    IN  IF body # <<>> /\ AllDigits(body)
        THEN (IF sign /\ s[1] = "-" THEN 0 - ToNat(body) ELSE ToNat(body))
        ELSE 0

\* inferBatchNum's null
NoBatchNum == -1

\* lines 40-47: every digit of part + " " + batch, read as one number
inferBatchNum(part, batch) ==
    LET pick   == part \o <<" ">> \o batch
        digits == SelectSeq(pick, LAMBDA ch : ch \in Digits)
    IN  IF digits = <<>> THEN NoBatchNum ELSE ToNat(digits)

\* a % b of JavaScript: the remainder has the sign of a
jsRem(a, b) == IF a >= 0 THEN a % b ELSE 0 - ((0 - a) % b)

\* line 36: s = ["th","st","nd","rd"]
ordinalSuffixes == << <<"t","h">>, <<"s","t">>, <<"n","d">>, <<"r","d">> >>

\* an ordinal that always ends in "th"
ordinalTh(n) == NatToStr(n) \o <<"t","h">>

\* lines 35-38: n + (s[(v-20)%10] || s[v] || s[0]); an index outside 0..3
\* reads undefined
ordinal(n) ==
    LET v == n % 100
        i == jsRem(v - 20, 10)
    IN  NatToStr(n) \o (IF i \in 0..3 THEN ordinalSuffixes[i + 1]
                        ELSE IF v \in 0..3 THEN ordinalSuffixes[v + 1]
                        ELSE ordinalSuffixes[1])

\* lines 49-53: !n holds for null and for 0
stageForBatch(n) ==
    IF n = NoBatchNum \/ n = 0 \/ n <= 1 THEN <<"I","n","i","t","i","a","l">>
    ELSE IF n >= 5 THEN <<"F","i","n","a","l">>
    ELSE ordinal(n) \o <<" ","F","o","l","l","o","w","-","u","p">>

Unnamed == <<"(","U","n","n","a","m","e","d",")">>

\* lines 224-261: the record the map callback returns for row r at index i
normalize(r, i) ==
    LET flags == classify(Field(r, "Tags"), Field(r, "Channels"))
        part  == Field(r, "Part")
        batch == Field(r, "Batch")
    IN  [ id       |-> i,
          mailDate |-> tryParseDate(FieldOr(r, "Red - Adjusted Dates", Field(r, "Date"))),
          hasMail  |-> flags.hasMail,
          hasText  |-> flags.hasText,
          hasVM    |-> flags.hasVM,
          count    |-> NumberOr0(Field(r, "Count")),
          campaign |-> FieldOr(r, "Campaign", Unnamed),
          category |-> Field(r, "Category"),
          part     |-> part,
          batch    |-> batch,
          batchNum |-> inferBatchNum(part, batch),
          cost     |-> NumberOr0(Field(r, "Cost")) ]

\* a filter that keeps every row
hasDateAlways(e) == TRUE

\* .filter((r) => r.mailDate)
hasDate(e) == e.mailDate # NoDate

\* lines 222-264
dataOf(rs) == SelectSeq([i \in 1..Len(rs) |-> normalize(rs[i], i - 1)], hasDate)

\* ------------------------------------------------------------------------
\* Tasks (lines 267-293)
\* ------------------------------------------------------------------------

Bar == <<"|">>

TypeName(type) ==
    CASE type = "mail" -> <<"m","a","i","l">>
      [] type = "text" -> <<"t","e","x","t">>
      [] type = "vm"   -> <<"v","m">>

\* `${type}|${format(date, 'yyyy-MM-dd')}|${r.campaign}|${r.part}|${r.batch}`
idKey(type, date, r) ==
    TypeName(type) \o Bar \o formatYMD(date) \o Bar \o r.campaign
        \o Bar \o r.part \o Bar \o r.batch

\* a follow-up date that ignores hasMail
followAlways13(r) == addDays(r.mailDate, 13)

\* line 271: text/vm-only campaigns happen on Date
follow(r) == IF r.hasMail THEN addDays(r.mailDate, 13) ELSE r.mailDate

\* line 277: a mail task has no stage
task(type, date, r) ==
    [type |-> type, date |-> date, idKey |-> idKey(type, date, r),
     count |-> r.count, ref |-> r]

\* lines 282-283 and 288-289: a text or vm task with its stage
stagedTask(type, date, r) ==
    [type |-> type, date |-> date, idKey |-> idKey(type, date, r),
     count |-> r.count, ref |-> r, stage |-> stageForBatch(r.batchNum)]

\* lines 270-290: what one iteration of the loop pushes
itemsOf(r) ==
    (IF r.hasMail THEN <<task("mail", r.mailDate, r)>> ELSE <<>>)
    \o (IF r.hasText THEN <<stagedTask("text", follow(r), r)>> ELSE <<>>)
    \o (IF r.hasVM THEN <<stagedTask("vm", follow(r), r)>> ELSE <<>>)

RECURSIVE items(_)
items(d) == IF d = <<>> THEN <<>> ELSE itemsOf(Head(d)) \o items(Tail(d))

\* an unstable sort: x goes in front of the elements of its date
RECURSIVE insertBeforeEqual(_, _)
insertBeforeEqual(sorted, x) ==
    IF sorted = <<>> THEN <<x>>
    ELSE IF Head(sorted).date - x.date < 0
         THEN <<Head(sorted)>> \o insertBeforeEqual(Tail(sorted), x)
         ELSE <<x>> \o sorted

\* Array.prototype.sort is stable: x goes behind every element that does not
\* compare greater than it
RECURSIVE insertByDate(_, _)
insertByDate(sorted, x) ==
    IF sorted = <<>> THEN <<x>>
    ELSE IF Head(sorted).date - x.date <= 0
         THEN <<Head(sorted)>> \o insertByDate(Tail(sorted), x)
         ELSE <<x>> \o sorted

RECURSIVE sortByDate(_)
sortByDate(xs) ==
    IF xs = <<>> THEN <<>>
    ELSE insertByDate(sortByDate(SubSeq(xs, 1, Len(xs) - 1)), xs[Len(xs)])

\* lines 267-293
tasksOf(d) == sortByDate(items(d))

\* ------------------------------------------------------------------------
\* Aggregates: monthAgg's map (lines 296-302), the rows of the displayed
\* month (line 332) and the groups of the cadence matrix (lines 726-740)
\* ------------------------------------------------------------------------

\* `${getYear(d)}-${String(getMonth(d) + 1).padStart(2, "0")}`
monthKey(date) ==
    LET c == CivilFromDays(date)
    IN  NatToStr(c[1]) \o <<"-">> \o padStart(NatToStr(c[2]), 2, "0")

\* a Map as the sequence of its entries in insertion order
mapHas(m, k) == \E i \in 1..Len(m) : m[i].key = k

mapGet(m, k) == m[CHOOSE i \in 1..Len(m) : m[i].key = k].val

mapSet(m, k, v) ==
    IF mapHas(m, k)
    THEN [i \in 1..Len(m) |-> IF m[i].key = k THEN [key |-> k, val |-> v] ELSE m[i]]
    ELSE Append(m, [key |-> k, val |-> v])

\* lines 297-302: map.set(key, (map.get(key) || 0) + r.count)
RECURSIVE monthMap(_)
monthMap(d) ==
    IF d = <<>> THEN <<>>
    ELSE LET m == monthMap(SubSeq(d, 1, Len(d) - 1))
             r == d[Len(d)]
             k == monthKey(r.mailDate)
         IN  IF ~r.hasMail THEN m
             ELSE mapSet(m, k, (IF mapHas(m, k) THEN mapGet(m, k) ELSE 0) + r.count)

\* list.includes(k)
includes(list, k) == \E i \in 1..Len(list) : list[i] = k

\* a text key on the event date, whether or not the event has mail
tKeyOnMailDate(r) ==
    <<"t","e","x","t","|">> \o formatYMD(r.mailDate) \o <<"|">> \o r.campaign
        \o <<"|">> \o r.part \o <<"|">> \o r.batch

\* lines 663-664: 'text|' + format(follow,'yyyy-MM-dd') + '|' + ...
tKey(r) ==
    <<"t","e","x","t","|">>
        \o formatYMD(IF r.hasMail THEN addDays(r.mailDate, 13) ELSE r.mailDate)
        \o <<"|">> \o r.campaign \o <<"|">> \o r.part \o <<"|">> \o r.batch

\* lines 663 and 665: 'vm|' + format(follow,'yyyy-MM-dd') + '|' + ...
vKey(r) ==
    <<"v","m","|">>
        \o formatYMD(IF r.hasMail THEN addDays(r.mailDate, 13) ELSE r.mailDate)
        \o <<"|">> \o r.campaign \o <<"|">> \o r.part \o <<"|">> \o r.batch

\* lines 661-669: the callback of the second filter
notCompleted(r, done, hideCompleted) ==
    IF ~hideCompleted THEN TRUE
    ELSE LET tDone == ~r.hasText \/ includes(done, tKey(r))
             vDone == ~r.hasVM \/ includes(done, vKey(r))
         IN  ~(tDone /\ vDone)

\* U+2013 (EN DASH), one character that is neither \w nor \s
EnDash == "u2013"

\* the collation rank of a character of a key (the characters of the keys of
\* this model): the space, then punctuation, then digits, then letters
\* whatever their case
keyCharRank(c) ==
    CASE c = " "      -> 0
      [] c = "-"      -> 1
      [] c = EnDash   -> 2
      [] c = "("      -> 3
      [] c = ")"      -> 4
      [] c = "/"      -> 5
      [] c \in Digits -> 6 + DigitVal[c]
      [] OTHER        -> 16 + (CHOOSE i \in 1..26 : LowerSeq[i] = toLowerCaseChar(c))

\* the case rank of a character: lower case sorts before upper case
caseRank(c) == IF c \in Upper THEN 1 ELSE 0

\* the comparison of two sequences of ranks: -1, 0 or 1
RECURSIVE compareRanks(_, _)
compareRanks(x, y) ==
    IF x = <<>> /\ y = <<>> THEN 0
    ELSE IF x = <<>> THEN -1
    ELSE IF y = <<>> THEN 1
    ELSE IF Head(x) < Head(y) THEN -1
    ELSE IF Head(x) > Head(y) THEN 1
    ELSE compareRanks(Tail(x), Tail(y))

\* a.localeCompare(b) for keys: by the characters first, by their case when
\* the characters are equal
localeCompare(a, b) ==
    LET primary == compareRanks([i \in 1..Len(a) |-> keyCharRank(a[i])],
                                [i \in 1..Len(b) |-> keyCharRank(b[i])])
    IN  IF primary # 0 THEN primary
        ELSE compareRanks([i \in 1..Len(a) |-> caseRank(a[i])],
                          [i \in 1..Len(b) |-> caseRank(b[i])])

\* line 305: .sort((a, b) => a.key.localeCompare(b.key)), a stable sort
RECURSIVE insertByKey(_, _)
insertByKey(sorted, x) ==
    IF sorted = <<>> THEN <<x>>
    ELSE IF localeCompare(Head(sorted).key, x.key) <= 0
         THEN <<Head(sorted)>> \o insertByKey(Tail(sorted), x)
         ELSE <<x>> \o sorted

RECURSIVE sortByKey(_)
sortByKey(xs) ==
    IF xs = <<>> THEN <<>>
    ELSE insertByKey(sortByKey(SubSeq(xs, 1, Len(xs) - 1)), xs[Len(xs)])

\* lines 296-306
monthAgg(d) ==
    LET m == monthMap(d)
    IN  sortByKey([i \in 1..Len(m) |-> [key |-> m[i].key, total |-> m[i].val]])

\* isSameMonth(a, b)
isSameMonth(a, b) ==
    CivilFromDays(a)[1] = CivilFromDays(b)[1] /\ CivilFromDays(a)[2] = CivilFromDays(b)[2]

\* rows with mail whatever their month
allMailRows(d, viewDate) == SelectSeq(d, LAMBDA r : r.hasMail)

\* line 332
thisMonthRows(d, viewDate) ==
    SelectSeq(d, LAMBDA r : isSameMonth(r.mailDate, viewDate) /\ r.hasMail)

startOfMonth(date) ==
    DaysFromCivil(CivilFromDays(date)[1], CivilFromDays(date)[2], 1)

endOfMonth(date) ==
    DaysFromCivil(CivilFromDays(date)[1], CivilFromDays(date)[2],
                  DaysInMonth(CivilFromDays(date)[1], CivilFromDays(date)[2]))

\* eachDayOfInterval({ start, end })
eachDayOfInterval(range) ==
    [i \in 1..(range.end - range.start + 1) |-> range.start + i - 1]

\* lines 339-343: the Map gets an entry at each day whose week key no
\* earlier day has set
weeksOfDays(days) ==
    LET key(i) == formatYMD(startOfWeek(days[i]))
        firsts == SelectSeq([i \in 1..Len(days) |-> i],
                            LAMBDA i : \A j \in 1..(i - 1) : key(j) # key(i))
    IN  [n \in 1..Len(firsts) |->
            [key |-> key(firsts[n]),
             val |-> [start |-> startOfWeek(days[firsts[n]]),
                      end   |-> endOfWeek(days[firsts[n]]),
                      total |-> 0]]]

\* lines 344-348: if (weeks.has(key)) weeks.get(key).total += r.count
RECURSIVE weeksWithTotals(_, _)
weeksWithTotals(weeks, rs) ==
    IF rs = <<>> THEN weeks
    ELSE LET before == weeksWithTotals(weeks, SubSeq(rs, 1, Len(rs) - 1))
             r      == rs[Len(rs)]
             key    == formatYMD(startOfWeek(r.mailDate))
         IN  IF mapHas(before, key)
             THEN mapSet(before, key,
                         [mapGet(before, key) EXCEPT !.total = @ + r.count])
             ELSE before

\* line 349: .sort((a, b) => a.start - b.start), a stable sort
RECURSIVE insertByStart(_, _)
insertByStart(sorted, x) ==
    IF sorted = <<>> THEN <<x>>
    ELSE IF Head(sorted).start - x.start <= 0
         THEN <<Head(sorted)>> \o insertByStart(Tail(sorted), x)
         ELSE <<x>> \o sorted

RECURSIVE sortByStart(_)
sortByStart(xs) ==
    IF xs = <<>> THEN <<>>
    ELSE insertByStart(sortByStart(SubSeq(xs, 1, Len(xs) - 1)), xs[Len(xs)])

\* lines 334-350
weeksForMonth(d, viewDate) ==
    LET monthRange == [start |-> startOfMonth(viewDate), end |-> endOfMonth(viewDate)]
        weeks      == weeksWithTotals(weeksOfDays(eachDayOfInterval(monthRange)),
                                      thisMonthRows(d, viewDate))
    IN  sortByStart([i \in 1..Len(weeks) |-> weeks[i].val])

\* lines 738-739: if (!groups.has(key)) groups.set(key, []); groups.get(key).push(r)
RECURSIVE groups(_)
groups(d) ==
    IF d = <<>> THEN <<>>
    ELSE LET m == groups(SubSeq(d, 1, Len(d) - 1))
             r == d[Len(d)]
             k == groupKey(r.campaign, r.part)
         IN  mapSet(m, k, Append(IF mapHas(m, k) THEN mapGet(m, k) ELSE <<>>, r))

\* line 742: arr.slice().sort((a,b)=>a.mailDate-b.mailDate), a stable sort
RECURSIVE insertByMailDate(_, _)
insertByMailDate(sorted, x) ==
    IF sorted = <<>> THEN <<x>>
    ELSE IF Head(sorted).mailDate - x.mailDate <= 0
         THEN <<Head(sorted)>> \o insertByMailDate(Tail(sorted), x)
         ELSE <<x>> \o sorted

RECURSIVE sortByMailDate(_)
sortByMailDate(xs) ==
    IF xs = <<>> THEN <<>>
    ELSE insertByMailDate(sortByMailDate(SubSeq(xs, 1, Len(xs) - 1)), xs[Len(xs)])

\* format(date, "M/d/yyyy")
formatMDY(date) ==
    LET c == CivilFromDays(date)
    IN  NatToStr(c[2]) \o <<"/">> \o NatToStr(c[3]) \o <<"/">>
        \o padStart(NatToStr(c[1]), 4, "0")

\* sorted.reduce((s,x)=>s+(x.count||0),0)
RECURSIVE sumOfCounts(_)
sumOfCounts(xs) == IF xs = <<>> THEN 0 ELSE Head(xs).count + sumOfCounts(Tail(xs))

\* dates[i] || ""
dateAt(dates, i) == IF i <= Len(dates) THEN dates[i] ELSE <<>>

\* a matrix row whose total is that of the dates it shows
cadenceRowOfShown(key, arr) ==
    LET sorted == sortByMailDate(arr)
        dates  == [i \in 1..Len(sorted) |-> formatMDY(sorted[i].mailDate)]
        shown  == SubSeq(sorted, 1, IF Len(sorted) < 5 THEN Len(sorted) ELSE 5)
    IN  [key |-> key, total |-> sumOfCounts(shown),
         d1 |-> dateAt(dates, 1), d2 |-> dateAt(dates, 2), d3 |-> dateAt(dates, 3),
         d4 |-> dateAt(dates, 4), d5 |-> dateAt(dates, 5)]

\* lines 741-745: the matrix row of one group
cadenceRow(key, arr) ==
    LET sorted == sortByMailDate(arr)
        dates  == [i \in 1..Len(sorted) |-> formatMDY(sorted[i].mailDate)]
    IN  [key |-> key, total |-> sumOfCounts(sorted),
         d1 |-> dateAt(dates, 1), d2 |-> dateAt(dates, 2), d3 |-> dateAt(dates, 3),
         d4 |-> dateAt(dates, 4), d5 |-> dateAt(dates, 5)]

\* lines 725-746: the rows of the cadence matrix
cadenceRows(d) ==
    LET gs == groups(d)
    IN  sortByKey([i \in 1..Len(gs) |-> cadenceRow(gs[i].key, gs[i].val)])

\* lines 657-669: the events of the campaign schedule, in date order
scheduleRows(d, done, hideCompleted, hidePast, startToday) ==
    SelectSeq(SelectSeq(sortByMailDate(d),
                        LAMBDA r : ~hidePast \/ r.mailDate >= startToday),
              LAMBDA r : notCompleted(r, done, hideCompleted))

\* the mail volume of every event, whatever its month and channels
totalOfAllRows(d, viewDate) == sumOfCounts(d)

\* line 352: thisMonthRows.reduce((a, b) => a + b.count, 0)
monthlyTotal(d, viewDate) == sumOfCounts(thisMonthRows(d, viewDate))

\* seven days from the given day on
weekFromDay(start) == [start |-> start, end |-> start + 6]

\* lines 320-328
weekBounds(start) == [start |-> startOfWeek(start), end |-> endOfWeek(start)]

inRange(d, range) == d >= range.start /\ d <= range.end

\* line 325, with today the reference date of thisWeek, nextWeek, nextNextWeek
classifyWeek(d, now) ==
    IF inRange(d, weekBounds(now)) THEN "this"
    ELSE IF inRange(d, weekBounds(addDays(now, 7))) THEN "next"
    ELSE IF inRange(d, weekBounds(addDays(now, 14))) THEN "next2"
    ELSE ""

tasksThisWeek(ts, now) == SelectSeq(ts, LAMBDA t : inRange(t.date, weekBounds(now)))

tasksNextWeek(ts, now) ==
    SelectSeq(ts, LAMBDA t : inRange(t.date, weekBounds(addDays(now, 7))))

\* lines 175-181
sampleRows ==
    << [Date |-> <<"2","0","2","5","-","0","8","-","2","6">>, Campaign |-> <<"D","M","3","-","B">>, Category |-> <<"F","L">>, Part |-> <<"B","a","t","c","h"," ","2">>, Batch |-> <<"B","2">>, Count |-> <<"2","4","4","4">>, Cost |-> <<>>, Channels |-> <<"M","a","i","l",",","T","e","x","t",",","V","o","i","c","e","m","a","i","l">>],
       [Date |-> <<"2","0","2","5","-","0","9","-","0","2">>, Campaign |-> <<"D","M","3","-","B">>, Category |-> <<"F","L">>, Part |-> <<"B","a","t","c","h"," ","3">>, Batch |-> <<"B","3">>, Count |-> <<"2","1","1","7">>, Cost |-> <<>>, Channels |-> <<"M","a","i","l",",","T","e","x","t",",","V","o","i","c","e","m","a","i","l">>],
       [Date |-> <<"2","0","2","5","-","0","9","-","0","9">>, Campaign |-> <<"D","M","3","-","B">>, Category |-> <<"F","L">>, Part |-> <<"B","a","t","c","h"," ","4">>, Batch |-> <<"B","4">>, Count |-> <<"2","5","2","4">>, Cost |-> <<>>, Channels |-> <<"M","a","i","l",",","T","e","x","t",",","V","o","i","c","e","m","a","i","l">>],
       [Date |-> <<"2","0","2","5","-","0","9","-","1","6">>, Campaign |-> <<"D","M","3","-","B">>, Category |-> <<"F","L">>, Part |-> <<"B","a","t","c","h"," ","5">>, Batch |-> <<"B","5">>, Count |-> <<"2","0","9","1">>, Cost |-> <<>>, Channels |-> <<"M","a","i","l",",","T","e","x","t",",","V","o","i","c","e","m","a","i","l">>],
       [Date |-> <<"2","0","2","5","-","0","9","-","2","3">>, Campaign |-> <<"L","C","/","T","e","x","t","-","O","n","l","y"," ",EnDash," ","P","r","o","m","o">>, Category |-> <<"O","K">>, Part |-> <<"W","a","v","e"," ","1">>, Batch |-> <<"W","1">>, Count |-> <<"1","8","0","0">>, Cost |-> <<>>, Channels |-> <<"T","e","x","t",",","V","o","i","c","e","m","a","i","l">>, Tags |-> <<"N","o","M","a","i","l">>] >>


\* ------------------------------------------------------------------------
\* The rows a loaded sheet can hold (what Papa.parse hands to setRows)
\* ------------------------------------------------------------------------

\* mail on 2025-08-26, text and vm on 2025-09-08
RowMailA ==
    [Date |-> <<"2","0","2","5","-","0","8","-","2","6">>, Campaign |-> <<"D","M"," ","1">>, Part |-> <<"B","a","t","c","h"," ","A">>, Batch |-> <<"B","2">>, Count |-> <<"2","4","4","4">>, Channels |-> <<"M","a","i","l",",","T","e","x","t",",","V","o","i","c","e","m","a","i","l">>]

\* the same campaign, part and batch without mail on 2025-09-08
RowNoMailA ==
    [Date |-> <<"9","/","8","/","2","0","2","5">>, Campaign |-> <<"D","M"," ","1">>, Part |-> <<"B","a","t","c","h"," ","A">>, Batch |-> <<"B","2">>, Count |-> <<"1","0","0">>, Tags |-> <<"N","o","M","a","i","l">>]

\* a date cell that is no date
RowNoDate ==
    [Date |-> <<"T","B","D">>, Campaign |-> <<"D","M"," ","2">>, Part |-> <<"B","a","t","c","h"," ","B">>, Batch |-> <<"B","1">>, Count |-> <<"5","0">>, Channels |-> <<"M","a","i","l">>]

\* tagged 'No Mail' and nothing else
RowNoMailSpaced ==
    [Date |-> <<"2","0","2","5","-","0","9","-","0","8">>, Campaign |-> <<"D","M"," ","1"," ","-"," ","A">>, Count |-> <<"1","0">>, Tags |-> <<"N","o"," ","M","a","i","l">>]

\* an adjusted date, and mail without text
RowAdjusted ==
    ("Red - Adjusted Dates" :> <<"2","0","2","5","-","0","9","-","0","8">>)
    @@ [Date |-> <<"2","0","2","5","-","0","9","-","0","2">>, Campaign |-> <<"L","C">>, Part |-> <<"W","a","v","e"," ","1">>, Batch |-> <<"W","1">>, Count |-> <<"3","0","0">>, Channels |-> <<"M","a","i","l",","," ","N","o"," ","T","e","x","t">>]

\* a date, and an adjusted-date cell that is no date
RowBadAdjusted ==
    ("Red - Adjusted Dates" :> <<"T","B","D">>)
    @@ [Date |-> <<"2","0","2","5","-","0","9","-","0","2">>, Campaign |-> <<"L","C">>, Count |-> <<"7","0">>, Channels |-> <<"T","e","x","t">>]

\* a row of a response that is no CSV of the sheet (an error page): none of
\* the columns the code reads
RowGarbage ==
    "<!DOCTYPE html>" :> <<"<","h","t","m","l",">">>

\* a date with a two-digit year
RowShortYear ==
    [Date |-> <<"8","/","2","6","/","2","5">>, Campaign |-> <<"D","M"," ","2">>, Count |-> <<"5","0","0">>, Channels |-> <<"M","a","i","l">>]

\* mail on the last day of September 2025
RowSep30 ==
    [Date |-> <<"9","/","3","0","/","2","0","2","5">>, Campaign |-> <<"D","M"," ","2">>, Part |-> <<"B","a","t","c","h"," ","B">>, Batch |-> <<"B","1">>, Count |-> <<"7","0","0">>, Channels |-> <<"M","a","i","l">>]

\* mail on the first day of October 2025, in the week of 2025-09-30
RowOct1 ==
    [Date |-> <<"1","0","/","1","/","2","0","2","5">>, Campaign |-> <<"D","M"," ","2">>, Part |-> <<"B","a","t","c","h"," ","B">>, Batch |-> <<"B","2">>, Count |-> <<"9","0","0">>, Channels |-> <<"M","a","i","l">>]

RowPool ==
    {RowMailA, RowNoMailA, RowNoDate, RowNoMailSpaced, RowAdjusted, RowBadAdjusted,
     RowGarbage, RowShortYear}

\* most rows of a row list handed to the derivation
MaxRows == 3

RowLists == UNION {[1..n -> RowPool] : n \in 0..MaxRows}

\* the rows of the sheets the fetch can answer with
SheetPool == {RowMailA, RowNoMailA, RowAdjusted, RowGarbage}

\* most rows of a fetched sheet
MaxSheetRows == 2

SheetLists == UNION {[1..n -> SheetPool] : n \in 0..MaxSheetRows}

\* the rows Papa.parse makes of an error page: its first line is the header,
\* every further line a row
ErrorLists == UNION {[1..n -> {RowGarbage}] : n \in 0..MaxSheetRows}

\* the rows of the sheets whose weeks are counted
WeekPool == {RowMailA, RowNoMailA, RowAdjusted, RowSep30, RowOct1}

\* most rows of such a sheet
MaxWeekRows == 3

WeekLists == UNION {[1..n -> WeekPool] : n \in 0..MaxWeekRows}

\* displayed months that hold rows of the pool
ViewDates == {DaysFromCivil(2025, 8, 15), DaysFromCivil(2025, 9, 15)}

\* the rows of the sheets shown in the cadence matrix: two of one group, one
\* of another
CadencePool == {RowMailA, RowNoMailA, RowAdjusted}

\* most rows of such a sheet
MaxCadenceRows == 6

CadenceLists == UNION {[1..n -> CadencePool] : n \in 0..MaxCadenceRows}

\* the days before and after Monday 2025-09-01 that are classified
MaxBefore == 8

MaxAfter == 28

\* mail without text and voicemail
RowMailOnly ==
    [Date |-> <<"2","0","2","5","-","0","9","-","0","9">>, Campaign |-> <<"D","M"," ","2">>, Part |-> <<"B","a","t","c","h"," ","B">>, Batch |-> <<"B","1">>, Count |-> <<"8","0","0">>, Channels |-> <<"M","a","i","l",","," ","N","o"," ","T","e","x","t",","," ","N","o"," ","V","M">>]

\* the rows of the sheets shown in the campaign schedule
SchedulePool == {RowMailA, RowNoMailA, RowAdjusted, RowMailOnly}

\* most rows of such a sheet
MaxScheduleRows == 2

ScheduleLists == UNION {[1..n -> SchedulePool] : n \in 0..MaxScheduleRows}

\* most completed tasks of such a sheet
MaxScheduleDone == 2

\* the idKeys of the tasks at the positions picked, in task order
keysAt(ts, picked) ==
    LET at == SelectSeq([i \in 1..Len(ts) |-> i], LAMBDA i : i \in picked)
    IN  [n \in 1..Len(at) |-> ts[at[n]].idKey]

\* a row list with up to MaxScheduleDone of its tasks completed and the two
\* switches of the schedule
ScheduleInputs ==
    UNION {
        LET ts == tasksOf(dataOf(rs))
        IN  {[rows |-> rs, doneKeys |-> keysAt(ts, picked),
              hideCompleted |-> hc, hidePast |-> hp] :
                picked \in {s \in SUBSET (1..Len(ts)) : Cardinality(s) <= MaxScheduleDone},
                hc \in BOOLEAN, hp \in BOOLEAN}
        : rs \in ScheduleLists}

\* most entries of doneKeys
MaxDone == 2

\* most days that pass after the first render
MaxDays == 1

\* the day of the first render: Sunday 2025-08-31
FirstDay == DaysFromCivil(2025, 8, 31)

\* ------------------------------------------------------------------------
\* The component (lines 186-397, 445-452, 473-480)
\* ------------------------------------------------------------------------

NoArg == [none |-> TRUE]

NoResult == [done |-> FALSE]

\* the render after setRows(rs): both memos are computed again
Rendered(rs) ==
    /\ rows' = rs
    /\ data' = dataOf(rs)
    /\ tasks' = tasksOf(dataOf(rs))

sampleData == dataOf(sampleRows)

sampleTasks == tasksOf(sampleData)

Init ==
    /\ rows = sampleRows
    /\ data = sampleData
    /\ tasks = sampleTasks
    /\ doneKeys = <<>>
    /\ stored = <<>>
    /\ today = FirstDay
    /\ fetch = "mounted"
    /\ alerted = FALSE
    /\ response = "none"
    /\ oddToggles = {}
    /\ arg = NoArg
    /\ res = NoResult

\* line 218: the effect on sheetUrl, set to FIXED_SHEET_URL by the mount
\* effect (lines 203-212), calls fetchSheet, which awaits fetch(url)
StartFetch ==
    /\ fetch = "mounted"
    /\ fetch' = "pending"
    /\ UNCHANGED <<rows, data, tasks, doneKeys, stored, today, alerted, response, oddToggles, arg, res>>

\* a load that also resets the completion set
loadCsvTextClearsDone ==
    /\ fetch = "pending"
    /\ \E rs \in SheetLists : Rendered(rs)
    /\ fetch' = "idle"
    /\ doneKeys' = <<>>
    /\ stored' = <<>>
    /\ response' = "csv"
    /\ UNCHANGED <<today, alerted, oddToggles, arg, res>>

\* lines 390-392 and 368-376: the response's text is parsed and setRows
\* replaces the rows, whatever the text was
loadCsvText ==
    /\ fetch = "pending"
    /\ \E rs \in SheetLists : Rendered(rs)
    /\ fetch' = "idle"
    /\ response' = "csv"
    /\ UNCHANGED <<doneKeys, stored, today, alerted, oddToggles, arg, res>>

\* lines 390-392 and 368-376 when the source answers with an error status:
\* fetch(...) resolves, res.ok is not read, and the body (an error page) goes
\* through res.text() and loadCsvText like a sheet
ErrorResponse ==
    /\ fetch = "pending"
    /\ \E rs \in ErrorLists : Rendered(rs)
    /\ fetch' = "idle"
    /\ response' = "error"
    /\ UNCHANGED <<doneKeys, stored, today, alerted, oddToggles, arg, res>>

\* lines 393-396: fetch or res.text() rejected
FetchFailed ==
    /\ fetch = "pending"
    /\ fetch' = "idle"
    /\ alerted' = TRUE
    /\ response' = "rejected"
    /\ UNCHANGED <<rows, data, tasks, doneKeys, stored, today, oddToggles, arg, res>>

\* an updater that appends whatever prev holds
toggledAppendOnly(prev, k) == Append(prev, k)

\* prev => prev.includes(k) ? prev.filter(x => x !== k) : [...prev, k]
toggled(prev, k) ==
    IF includes(prev, k)
    THEN SelectSeq(prev, LAMBDA x : x # k)
    ELSE Append(prev, k)

\* the tasks that are rendered with a checkbox (lines 445-452, 473-480)
checkboxes(ts, now) ==
    SelectSeq(tasksThisWeek(ts, now) \o tasksNextWeek(ts, now),
              LAMBDA t : t.type = "text" \/ t.type = "vm")

\* lines 451 and 479 (onChange), then the effect of line 219
Toggle ==
    /\ LET boxes == checkboxes(tasks, today)
       IN  \E i \in 1..Len(boxes) :
             /\ Len(doneKeys) < MaxDone \/ includes(doneKeys, boxes[i].idKey)
             /\ doneKeys' = toggled(doneKeys, boxes[i].idKey)
             /\ oddToggles' = IF boxes[i].idKey \in oddToggles
                              THEN oddToggles \ {boxes[i].idKey}
                              ELSE oddToggles \cup {boxes[i].idKey}
    /\ stored' = doneKeys'
    /\ UNCHANGED <<rows, data, tasks, today, fetch, alerted, response, arg, res>>

\* the page is loaded again: useState(sampleRows), doneKeys from localStorage
\* (lines 187, 197-199)
Remount ==
    /\ rows' = sampleRows
    /\ data' = sampleData
    /\ tasks' = sampleTasks
    /\ doneKeys' = stored
    /\ fetch' = "mounted"
    /\ alerted' = FALSE
    /\ response' = "none"
    /\ UNCHANGED <<stored, today, oddToggles, arg, res>>

\* line 200: a later render reads a later new Date()
NextDay ==
    /\ today < FirstDay + MaxDays
    /\ today' = today + 1
    /\ UNCHANGED <<rows, data, tasks, doneKeys, stored, fetch, alerted, response, oddToggles, arg, res>>

Next ==
    \/ StartFetch
    \/ loadCsvText
    \/ ErrorResponse
    \/ FetchFailed
    \/ Toggle
    \/ Remount
    \/ NextDay

Spec == Init /\ [][Next]_vars


\* ------------------------------------------------------------------------
\* The derivation applied to bounded inputs
\* ------------------------------------------------------------------------

\* the component at rest while a function is applied
AtRest ==
    /\ rows = sampleRows
    /\ data = sampleData
    /\ tasks = sampleTasks
    /\ doneKeys = <<>>
    /\ stored = <<>>
    /\ today = FirstDay
    /\ fetch = "mounted"
    /\ alerted = FALSE
    /\ response = "none"
    /\ oddToggles = {}

StaysAtRest ==
    UNCHANGED <<rows, data, tasks, doneKeys, stored, today, fetch, alerted, response,
                oddToggles>>

\* the full derivation (data, tasks) of a row list
InitDerive ==
    /\ AtRest
    /\ arg \in [rows : RowLists]
    /\ res = NoResult

Derive ==
    /\ ~res.done
    /\ res' = [done |-> TRUE, data |-> dataOf(arg.rows), tasks |-> tasksOf(dataOf(arg.rows)),
               monthAgg |-> monthAgg(dataOf(arg.rows))]
    /\ UNCHANGED arg
    /\ StaysAtRest

SpecDerive == InitDerive /\ [][Derive]_vars

tagNone == <<>>

tagNoMail == <<"N","o","M","a","i","l">>

tagNoMailSpaced == <<"N","o"," ","M","a","i","l">>

tagNoMailDashed == <<"n","o","-","m","a","i","l">>

tagNoText == <<"N","o"," ","T","e","x","t">>

tagNoVm == <<"n","o","-","v","m">>

tagPromo == <<"P","r","o","m","o">>

chNone == <<>>

chAll == <<"M","a","i","l",",","T","e","x","t",",","V","o","i","c","e","m","a","i","l">>

chTextVm == <<"T","e","x","t",",","V","o","i","c","e","m","a","i","l">>

chVoicemail == <<"v","o","i","c","e","m","a","i","l">>

chVoiceMail == <<"V","o","i","c","e"," ","M","a","i","l">>

chVm == <<"v","m">>

chVmail == <<"v","m","a","i","l">>

chSms == <<"S","M","S">>

chMail == <<"M","a","i","l">>

chText == <<"T","e","x","t">>

TagCells == {tagNone, tagNoMail, tagNoMailSpaced, tagNoMailDashed, tagNoText, tagNoVm, tagPromo}

ChannelCells ==
    {chNone, chAll, chTextVm, chVoicemail, chVoiceMail, chVm, chVmail, chSms, chMail, chText}

\* a row with the given Tags and Channels cells, dated 2025-09-08
taggedRow(tags, channels) ==
    [Date |-> <<"2","0","2","5","-","0","9","-","0","8">>,
     Campaign |-> <<"D","M"," ","1">>, Count |-> <<"1","0","0">>,
     Tags |-> tags, Channels |-> channels]

InitClassify ==
    /\ AtRest
    /\ arg \in [tags : TagCells, channels : ChannelCells]
    /\ res = NoResult

\* the derivation of the one-row list of taggedRow
ClassifyRow ==
    /\ ~res.done
    /\ LET d == dataOf(<<taggedRow(arg.tags, arg.channels)>>)
       IN  res' = [done |-> TRUE, data |-> d, tasks |-> tasksOf(d)]
    /\ UNCHANGED arg
    /\ StaysAtRest

SpecClassify == InitClassify /\ [][ClassifyRow]_vars

cDM1 == <<"D","M"," ","1">>

cDM1A == <<"D","M"," ","1"," ","-"," ","A">>

cDM1b == <<"D","M"," ","1"," ","-"," ","b">>

cDM1AB == <<"D","M"," ","1"," ","-"," ","A","B">>

cDM1n == <<"D","M"," ","1"," ","-"," ","2">>

cDM3B == <<"D","M","3","-","B">>

cPadded == <<" ","D","M"," ","1"," ","-"," ","A"," ">>

cEmpty == <<>>

pNone == <<>>

pBatchA == <<"B","a","t","c","h"," ","A">>

pBatchB == <<"B","a","t","c","h"," ","B">>

pA == <<"A">>

pLowerA == <<"a">>

pBatch2 == <<"B","a","t","c","h"," ","2">>

p2 == <<"2">>

p2A == <<"2"," ","A">>

CampaignCells ==
    {cDM1, cDM1A, cDM1b, cDM1AB, cDM1n, cDM3B, cPadded, cEmpty}

PartCells == {pNone, pBatchA, pBatchB, pA, pLowerA, pBatch2, p2, p2A}

InitBuild ==
    /\ AtRest
    /\ arg \in [campaign : CampaignCells, part : PartCells]
    /\ res = NoResult

\* the group key of the cadence matrix and build(...) of the runtime checks
BuildKey ==
    /\ ~res.done
    /\ res' = [done |-> TRUE,
               key |-> groupKey(arg.campaign, arg.part),
               built |-> build(arg.campaign, arg.part)]
    /\ UNCHANGED arg
    /\ StaysAtRest

SpecBuild == InitBuild /\ [][BuildKey]_vars

pBatch0 == <<"B","a","t","c","h"," ","0">>

pBatch1 == <<"B","a","t","c","h"," ","1">>

pBatch3 == <<"B","a","t","c","h"," ","3">>

pBatch4 == <<"B","a","t","c","h"," ","4">>

pBatch5 == <<"B","a","t","c","h"," ","5">>

p2of4 == <<"2"," ","o","f"," ","4">>

bNone == <<>>

bB == <<"B">>

bB2 == <<"B","2">>

bB3 == <<"B","3">>

b0 == <<"0">>

bW1 == <<"W","1">>

BatchPartCells == {pNone, pBatchA, pBatch0, pBatch1, pBatch2, pBatch3, pBatch4, pBatch5, p2of4}

BatchCells == {bNone, bB, bB2, bB3, b0, bW1}

\* a mail, text and voicemail row with the given Part and Batch cells
batchRow(part, batch) ==
    [Date |-> <<"2","0","2","5","-","0","8","-","2","6">>,
     Campaign |-> <<"D","M","3","-","B">>, Count |-> <<"2","4","4","4">>,
     Channels |-> chAll, Part |-> part, Batch |-> batch]

InitBatch ==
    /\ AtRest
    /\ arg \in [part : BatchPartCells, batch : BatchCells]
    /\ res = NoResult

\* the derivation of the one-row list of batchRow
InferBatch ==
    /\ ~res.done
    /\ LET d == dataOf(<<batchRow(arg.part, arg.batch)>>)
       IN  res' = [done |-> TRUE, data |-> d, tasks |-> tasksOf(d)]
    /\ UNCHANGED arg
    /\ StaysAtRest

SpecBatch == InitBatch /\ [][InferBatch]_vars

nNone == <<>>

nZero == <<"0">>

n2444 == <<"2","4","4","4">>

nPadded == <<" ","4","2"," ">>

nPlus7 == <<"+","7">>

nMinus5 == <<"-","5">>

nComma == <<"1",",","2","0","0">>

nDollar == <<"$","3","5">>

nText == <<"T","B","D">>

NumberCells == {nNone, nZero, n2444, nPadded, nPlus7, nMinus5, nComma, nDollar, nText}

\* the cells of NumberCells that are no number
NotNumberCells == {nNone, nComma, nDollar, nText}

\* a mail row with the given Count and Cost cells
countedRow(count, cost) ==
    [Date |-> <<"2","0","2","5","-","0","8","-","2","6">>,
     Campaign |-> <<"D","M"," ","1">>, Channels |-> chMail,
     Count |-> count, Cost |-> cost]

InitCount ==
    /\ AtRest
    /\ arg \in [count : NumberCells, cost : NumberCells]
    /\ res = NoResult

\* the derivation of the one-row list of countedRow
CountRow ==
    /\ ~res.done
    /\ LET d == dataOf(<<countedRow(arg.count, arg.cost)>>)
       IN  res' = [done |-> TRUE, data |-> d, tasks |-> tasksOf(d)]
    /\ UNCHANGED arg
    /\ StaysAtRest

SpecCount == InitCount /\ [][CountRow]_vars

InitWeeks ==
    /\ AtRest
    /\ arg \in [rows : WeekLists, viewDate : ViewDates]
    /\ res = NoResult

\* the weekly mail counts, the monthly total and the month aggregate of the
\* displayed month for a row list
CountWeeks ==
    /\ ~res.done
    /\ LET d == dataOf(arg.rows)
       IN  res' = [done |-> TRUE, data |-> d, weeks |-> weeksForMonth(d, arg.viewDate),
                   monthlyTotal |-> monthlyTotal(d, arg.viewDate),
                   monthAgg |-> monthAgg(d)]
    /\ UNCHANGED arg
    /\ StaysAtRest

SpecWeeks == InitWeeks /\ [][CountWeeks]_vars

InitSchedule ==
    /\ AtRest
    /\ arg \in ScheduleInputs
    /\ res = NoResult

\* the campaign schedule of a row list, a completion list and the switches
RenderSchedule ==
    /\ ~res.done
    /\ LET d == dataOf(arg.rows)
       IN  res' = [done |-> TRUE, data |-> d, tasks |-> tasksOf(d),
                   schedule |-> scheduleRows(d, arg.doneKeys, arg.hideCompleted,
                                             arg.hidePast, today)]
    /\ UNCHANGED arg
    /\ StaysAtRest

SpecSchedule == InitSchedule /\ [][RenderSchedule]_vars

InitWeekOf ==
    /\ AtRest
    /\ arg \in [now : DaysFromCivil(2025, 9, 1)..DaysFromCivil(2025, 9, 7),
                 d   : (DaysFromCivil(2025, 9, 1) - MaxBefore)
                         ..(DaysFromCivil(2025, 9, 1) + MaxAfter)]
    /\ res = NoResult

\* classifyWeek of a date against a reference date
ClassifyDate ==
    /\ ~res.done
    /\ res' = [done |-> TRUE, wk |-> classifyWeek(arg.d, arg.now)]
    /\ UNCHANGED arg
    /\ StaysAtRest

SpecWeekOf == InitWeekOf /\ [][ClassifyDate]_vars

InitCadence ==
    /\ AtRest
    /\ arg \in [rows : CadenceLists]
    /\ res = NoResult

\* the cadence matrix of a row list
RenderCadence ==
    /\ ~res.done
    /\ LET d == dataOf(arg.rows)
       IN  res' = [done |-> TRUE, data |-> d, matrix |-> cadenceRows(d)]
    /\ UNCHANGED arg
    /\ StaysAtRest

SpecCadence == InitCadence /\ [][RenderCadence]_vars

\* every outcome of the seven tests of lines 229-235
TokenFlags ==
    [hasNoMailTag : BOOLEAN, hasMailToken : BOOLEAN, hasTextToken : BOOLEAN,
     hasVmToken : BOOLEAN, anyToken : BOOLEAN, noText : BOOLEAN, noVM : BOOLEAN]

InitFlags ==
    /\ AtRest
    /\ arg \in TokenFlags
    /\ res = NoResult

\* lines 236-243 on the token flags of arg
ApplyFlags ==
    /\ ~res.done
    /\ res' = [done |-> TRUE,
               flags |-> channelFlags(arg.hasNoMailTag, arg.hasMailToken,
                                      arg.hasTextToken, arg.hasVmToken,
                                      arg.anyToken, arg.noText, arg.noVM)]
    /\ UNCHANGED arg
    /\ StaysAtRest

SpecFlags == InitFlags /\ [][ApplyFlags]_vars

\* the column names the derivation reads (lines 225-260)
Columns ==
    {"Date", "Red - Adjusted Dates", "Tags", "Channels", "Part", "Batch",
     "Count", "Campaign", "Category", "Cost"}

lowerName ==
    ("Date" :> "date") @@ ("Red - Adjusted Dates" :> "red - adjusted dates")
    @@ ("Tags" :> "tags") @@ ("Channels" :> "channels") @@ ("Part" :> "part")
    @@ ("Batch" :> "batch") @@ ("Count" :> "count") @@ ("Campaign" :> "campaign")
    @@ ("Category" :> "category") @@ ("Cost" :> "cost")

upperName ==
    ("Date" :> "DATE") @@ ("Red - Adjusted Dates" :> "RED - ADJUSTED DATES")
    @@ ("Tags" :> "TAGS") @@ ("Channels" :> "CHANNELS") @@ ("Part" :> "PART")
    @@ ("Batch" :> "BATCH") @@ ("Count" :> "COUNT") @@ ("Campaign" :> "CAMPAIGN")
    @@ ("Category" :> "CATEGORY") @@ ("Cost" :> "COST")

Casings == {"lower", "upper"}

AllColumns == "*"

\* the header c of a sheet that writes column `column` (or every column) in
\* the given letter case
headerOf(c, casing, column) ==
    IF c \in Columns /\ column \in {c, AllColumns}
    THEN (IF casing = "lower" THEN lowerName[c] ELSE upperName[c])
    ELSE c

\* row r as Papa.parse (header: true, line 370) hands it over when the
\* sheet's header line is written that way: the keys are the header texts
recased(r, casing, column) ==
    [k \in {headerOf(c, casing, column) : c \in DOMAIN r} |->
        r[CHOOSE c \in DOMAIN r : headerOf(c, casing, column) = k]]

InitHeader ==
    /\ AtRest
    /\ arg \in [row : RowPool, casing : Casings, column : Columns \cup {AllColumns}]
    /\ res = NoResult

\* the derivation of the one-row list of the recased row
DeriveRecased ==
    /\ ~res.done
    /\ LET d == dataOf(<<recased(arg.row, arg.casing, arg.column)>>)
       IN  res' = [done |-> TRUE, data |-> d, tasks |-> tasksOf(d)]
    /\ UNCHANGED arg
    /\ StaysAtRest

SpecHeader == InitHeader /\ [][DeriveRecased]_vars

\* ------------------------------------------------------------------------
\* Claims
\* ------------------------------------------------------------------------

Indexes(s) == 1..Len(s)

RECURSIVE SumSeq(_)
SumSeq(s) == IF s = <<>> THEN 0 ELSE Head(s) + SumSeq(Tail(s))

\* C1: no two distinct tasks of the derived task list share the same
\* identityKey, so one entry of the completion set marks exactly one task.
C1_DistinctTasksDistinctKeys ==
    \A i, j \in Indexes(tasks) : i # j => tasks[i].idKey # tasks[j].idKey

\* the five components of a task's identityKey
components(t) == <<t.type, t.date, t.ref.campaign, t.ref.part, t.ref.batch>>

keysOf(ts) == {ts[i].idKey : i \in Indexes(ts)}

\* C2: replacing the rows (a fetch completing, the page loading again)
\* leaves doneKeys unchanged, and a task with the same five identityKey
\* components as a task before the replacement is done exactly when that one
\* was done.
C2_ReloadKeepsDoneKeys ==
    [][ (rows' # rows \/ (fetch = "pending" /\ fetch' = "idle")) =>
          /\ doneKeys' = doneKeys
          /\ \A i \in Indexes(tasks) : \A j \in Indexes(tasks') :
                components(tasks[i]) = components(tasks'[j]) =>
                    (includes(doneKeys', tasks'[j].idKey)
                        <=> includes(doneKeys, tasks[i].idKey)) ]_vars

\* C2 witness: a sheet is loaded, and doneKeys still holds the key of a task
\* of the sample rows that the loaded sheet does not have
C2_Witness ==
    /\ fetch = "idle"
    /\ ~alerted
    /\ rows # sampleRows
    /\ \E i \in Indexes(doneKeys) :
         doneKeys[i] \in keysOf(sampleTasks) /\ doneKeys[i] \notin keysOf(tasks)

\* the cell tryParseDate is called on (line 225)
dateCell(r) == FieldOr(r, "Red - Adjusted Dates", Field(r, "Date"))

unparseable(r) == tryParseDate(dateCell(r)) = NoDate

dropped(rs) == {i \in Indexes(rs) : unparseable(rs[i])}

\* the mail volume of the rows of rs that are kept, have mail and fall in the
\* month of key k
monthTotalOfRows(rs, k) ==
    SumSeq([i \in Indexes(rs) |->
        IF /\ i \notin dropped(rs)
           /\ classify(Field(rs[i], "Tags"), Field(rs[i], "Channels")).hasMail
           /\ monthKey(tryParseDate(dateCell(rs[i]))) = k
        THEN NumberOr0(Field(rs[i], "Count"))
        ELSE 0])

\* C4: the number of normalized events is the number of rows minus the number
\* of rows whose date cannot be parsed; every event has a date; a row with an
\* unparseable date has no event, no task, no place in a cadence group or
\* among the rows of a displayed month, and adds to no monthly total.
C4_DroppedRows ==
    res.done =>
        LET rs == arg.rows
            ms == monthMap(res.data)
            gs == groups(res.data)
        IN  /\ Len(res.data) = Len(rs) - Cardinality(dropped(rs))
            /\ \A k \in Indexes(res.data) : res.data[k].mailDate # NoDate
            /\ \A i \in dropped(rs) :
                 /\ \A k \in Indexes(res.data) : res.data[k].id # i - 1
                 /\ \A k \in Indexes(res.tasks) : res.tasks[k].ref.id # i - 1
                 /\ \A g \in Indexes(gs) : \A k \in Indexes(gs[g].val) :
                        gs[g].val[k].id # i - 1
                 /\ \A v \in ViewDates :
                        \A k \in Indexes(thisMonthRows(res.data, v)) :
                            thisMonthRows(res.data, v)[k].id # i - 1
            /\ \A m \in Indexes(ms) : ms[m].val = monthTotalOfRows(rs, ms[m].key)

\* C4 witness: a list with a dropped row and a kept row with mail
C4_Witness ==
    /\ res.done
    /\ dropped(arg.rows) # {}
    /\ \E k \in Indexes(res.data) : res.data[k].hasMail
    /\ \E i \in dropped(arg.rows) : Field(arg.rows[i], "Date") # <<>>

\* the (type, date) pairs the Task Deriver is to emit for event e
expectedTasks(e) ==
    LET followUp == IF e.hasMail THEN e.mailDate + 13 ELSE e.mailDate
    IN  (IF e.hasMail THEN {<<"mail", e.mailDate>>} ELSE {})
        \cup (IF e.hasText THEN {<<"text", followUp>>} ELSE {})
        \cup (IF e.hasVM THEN {<<"vm", followUp>>} ELSE {})

tasksOfEvent(ts, e) == SelectSeq(ts, LAMBDA t : t.ref = e)

\* C5: for every normalized event the tasks are exactly: a mail task on the
\* event date iff hasMail; a text task iff hasText and a vm task iff hasVM,
\* dated 13 days after the event date when hasMail and on the event date
\* otherwise; at most one task per type, and no task of any other event.
C5_TasksOfEachEvent ==
    res.done =>
        /\ \A k \in Indexes(res.data) :
             LET mine == tasksOfEvent(res.tasks, res.data[k])
             IN  /\ {<<mine[i].type, mine[i].date>> : i \in Indexes(mine)}
                        = expectedTasks(res.data[k])
                 /\ Len(mine) = Cardinality(expectedTasks(res.data[k]))
        /\ \A i \in Indexes(res.tasks) :
             \E k \in Indexes(res.data) : res.tasks[i].ref = res.data[k]

\* C5 witness: an event with mail and follow-ups 13 days later, and an event
\* without mail whose text task is on the event date
C5_Witness ==
    /\ res.done
    /\ \E i, j \in Indexes(res.tasks) :
         /\ res.tasks[i].type = "text" /\ res.tasks[i].ref.hasMail
         /\ res.tasks[i].date = res.tasks[i].ref.mailDate + 13
         /\ res.tasks[j].type = "text" /\ ~res.tasks[j].ref.hasMail
         /\ res.tasks[j].date = res.tasks[j].ref.mailDate

typeRank(type) == CASE type = "mail" -> 1 [] type = "text" -> 2 [] type = "vm" -> 3

\* a is emitted before b: an earlier row, or the same row and an earlier type
emittedBefore(a, b) ==
    \/ a.ref.id < b.ref.id
    \/ a.ref.id = b.ref.id /\ typeRank(a.type) < typeRank(b.type)

\* C6: the task list is sorted ascending by date, and tasks of equal date are
\* in emission order (row order, then mail, text, vm).
C6_SortedStable ==
    res.done =>
        \A i, j \in Indexes(res.tasks) :
            i < j =>
                /\ res.tasks[i].date <= res.tasks[j].date
                /\ res.tasks[i].date = res.tasks[j].date
                     => emittedBefore(res.tasks[i], res.tasks[j])

\* C6 witness: the sort moved a task, and two tasks of different rows tie
C6_Witness ==
    /\ res.done
    /\ res.tasks # items(res.data)
    /\ \E i, j \in Indexes(res.tasks) :
         /\ i < j
         /\ res.tasks[i].date = res.tasks[j].date
         /\ res.tasks[i].ref.id # res.tasks[j].ref.id

theEvent == res.data[1]

taskPairs == [i \in Indexes(res.tasks) |-> <<res.tasks[i].type, res.tasks[i].date>>]

\* C7: a row whose Tags/Channels text is only a no-mail marker ('NoMail',
\* 'No Mail', 'no-mail') is hasMail=false, hasText=true, hasVM=true and
\* yields a text task and a vm task on the event date.
C7_NoMailMarkerIsTextVm ==
    (/\ res.done
     /\ arg.channels = chNone
     /\ arg.tags \in {tagNoMail, tagNoMailSpaced, tagNoMailDashed}) =>
        /\ ~theEvent.hasMail /\ theEvent.hasText /\ theEvent.hasVM
        /\ taskPairs = << <<"text", theEvent.mailDate>>, <<"vm", theEvent.mailDate>> >>

\* C8: a row that names only voicemail ('voicemail', 'Voice Mail', 'vm',
\* 'vmail') is hasVM=true, hasMail=false and yields no mail task; 'SMS' alone
\* gives hasText=true; 'Mail,Text,Voicemail' gives all three.
C8_MailNotInsideVoicemail ==
    (res.done /\ arg.tags = tagNone) =>
        /\ arg.channels \in {chVoicemail, chVoiceMail, chVm, chVmail} =>
             /\ theEvent.hasVM /\ ~theEvent.hasMail
             /\ \A i \in Indexes(res.tasks) : res.tasks[i].type # "mail"
        /\ arg.channels = chSms => theEvent.hasText
        /\ arg.channels = chAll =>
             theEvent.hasMail /\ theEvent.hasText /\ theEvent.hasVM

\* C9: the group identity appends the letter that designates the part: for a
\* part 'Batch <L>' it is the base campaign name, ' - ' and L; campaign
\* 'DM 1' with part 'Batch A' gives 'DM 1 - A'.
C9_PartLetterAppended ==
    (res.done /\ arg.campaign = cDM1) =>
        /\ arg.part = pBatchA =>
             /\ res.key = cDM1 \o Dash3 \o <<"A">>
             /\ res.built = cDM1 \o Dash3 \o <<"A">>
        /\ arg.part = pBatchB =>
             /\ res.key = cDM1 \o Dash3 \o <<"B">>
             /\ res.built = cDM1 \o Dash3 \o <<"B">>

\* C10: with no letter in the part, a ' - X' suffix of the campaign name is
\* kept: campaign 'DM 1 - A' with part '' has identity 'DM 1 - A', the group
\* of campaign 'DM 1' part 'A', not the group of plain 'DM 1'.
C10_SuffixKeptWithoutPartLetter ==
    (res.done /\ arg.campaign = cDM1A /\ arg.part = pNone) =>
        /\ res.key = cDM1A
        /\ res.built = cDM1A
        /\ res.key = groupKey(cDM1, pA)
        /\ res.key # groupKey(cDM1, pNone)

\* the stage of batch number n as the claim words it
stageWords(n) ==
    CASE n \in {NoBatchNum, 0, 1} -> <<"I","n","i","t","i","a","l">>
      [] n = 2 -> <<"2","n","d"," ","F","o","l","l","o","w","-","u","p">>
      [] n = 3 -> <<"3","r","d"," ","F","o","l","l","o","w","-","u","p">>
      [] n = 4 -> <<"4","t","h"," ","F","o","l","l","o","w","-","u","p">>
      [] OTHER -> <<"F","i","n","a","l">>

\* C11: stageForBatch(n) is 'Initial' for n absent, 0 or 1, 'Final' for
\* n >= 5 and '2nd Follow-up', '3rd Follow-up', '4th Follow-up' for 2..4;
\* every text and vm task carries stageForBatch of its event's batchNum and
\* a mail task carries no stage.
C11_StageOfTasks ==
    res.done =>
        /\ stageForBatch(theEvent.batchNum) = stageWords(theEvent.batchNum)
        /\ \A i \in Indexes(res.tasks) :
             IF res.tasks[i].type = "mail"
             THEN "stage" \notin DOMAIN res.tasks[i]
             ELSE /\ "stage" \in DOMAIN res.tasks[i]
                  /\ res.tasks[i].stage = stageWords(res.tasks[i].ref.batchNum)

\* C11 witness: a row of batch number 3 has a mail task and a text task
\* staged '3rd Follow-up'
C11_Witness ==
    /\ res.done
    /\ theEvent.batchNum = 3
    /\ \E i, j \in Indexes(res.tasks) :
         /\ res.tasks[i].type = "mail"
         /\ res.tasks[j].type = "text"
         /\ res.tasks[j].stage = <<"3","r","d"," ","F","o","l","l","o","w","-","u","p">>

\* the first run of consecutive digits of s (empty when s has no digit)
firstDigitRun(s) ==
    LET at == {i \in Indexes(s) : s[i] \in Digits}
    IN  IF at = {} THEN <<>>
        ELSE LET from == CHOOSE i \in at : \A j \in at : i <= j
                 to   == CHOOSE k \in from..Len(s) :
                            /\ \A j \in from..k : s[j] \in Digits
                            /\ k = Len(s) \/ s[k + 1] \notin Digits
             IN  SubSeq(s, from, to)

\* C12: batchNum is, when present, a positive integer equal to the first run
\* of consecutive digits of part followed by batch (part 'Batch 2', batch
\* 'B2' gives 2, hence stage '2nd Follow-up'), and is absent exactly when
\* neither part nor batch has a digit.
C12_BatchNumIsFirstDigitRun ==
    res.done =>
        LET run == firstDigitRun(arg.part \o <<" ">> \o arg.batch)
        IN  /\ theEvent.batchNum = NoBatchNum <=> run = <<>>
            /\ theEvent.batchNum # NoBatchNum =>
                  /\ theEvent.batchNum > 0
                  /\ theEvent.batchNum = ToNat(run)
            /\ (arg.part = pBatch2 /\ arg.batch = bB2) =>
                  /\ theEvent.batchNum = 2
                  /\ \A i \in Indexes(res.tasks) :
                        res.tasks[i].type = "text" =>
                            res.tasks[i].stage = stageWords(2)

\* <<year, month>> of a date
yearMonth(date) == <<CivilFromDays(date)[1], CivilFromDays(date)[2]>>

\* <<year, month>> named by a month key
yearMonthOfKey(k) == <<ToNat(Split(k, "-")[1]), ToNat(Split(k, "-")[2])>>

\* ym is an earlier month than zn
earlierMonth(ym, zn) == ym[1] < zn[1] \/ (ym[1] = zn[1] /\ ym[2] < zn[2])

\* the rows of rs in the order p
permuted(rs, p) == [i \in Indexes(rs) |-> rs[p[i]]]

\* C13: the monthly mail aggregate has exactly one entry per (year, month)
\* that holds an event with hasMail; its total is the sum of count over the
\* hasMail events of that month; the entries are in ascending year-month
\* order; every permutation of the rows gives the same aggregate.
C13_MonthAggregate ==
    res.done =>
        LET agg  == res.monthAgg
            d    == res.data
            mail == {k \in Indexes(d) : d[k].hasMail}
        IN  /\ {yearMonthOfKey(agg[i].key) : i \in Indexes(agg)}
                  = {yearMonth(d[k].mailDate) : k \in mail}
            /\ \A i, j \in Indexes(agg) : i # j => agg[i].key # agg[j].key
            /\ \A i \in Indexes(agg) :
                  agg[i].total =
                    SumSeq([k \in Indexes(d) |->
                        IF k \in mail /\ yearMonth(d[k].mailDate) = yearMonthOfKey(agg[i].key)
                        THEN d[k].count ELSE 0])
            /\ \A i, j \in Indexes(agg) :
                  i < j => earlierMonth(yearMonthOfKey(agg[i].key), yearMonthOfKey(agg[j].key))
            /\ \A p \in Permutations(Indexes(arg.rows)) :
                  monthAgg(dataOf(permuted(arg.rows, p))) = agg

\* C14: every normalized event has a count that is a non-negative integer and
\* a cost that is a non-negative number, whatever the Count and Cost cells
\* hold; a cell that is not a number gives 0.
C14_CountAndCostNonNegative ==
    res.done =>
        /\ theEvent.count \in Nat
        /\ theEvent.cost >= 0
        /\ arg.count \in NotNumberCells => theEvent.count = 0
        /\ arg.cost \in NotNumberCells => theEvent.cost = 0

\* C15: column names are matched case-insensitively: a row list that differs
\* from another only in the letter case of its column names ('date', 'DATE',
\* 'count', 'tags') gives the same normalized events and tasks.
C15_ColumnCaseIgnored ==
    res.done =>
        /\ res.data = dataOf(<<arg.row>>)
        /\ res.tasks = tasksOf(dataOf(<<arg.row>>))

\* C16: a failed fetch (the request rejecting, or the source answering with
\* an error response instead of the CSV) shows a message and leaves the rows,
\* and so the events and tasks, as they were before it.
C16_FailedFetchKeepsRows ==
    [][ (fetch = "pending" /\ fetch' = "idle" /\ response' \in {"error", "rejected"}) =>
          /\ alerted'
          /\ rows' = rows
          /\ data' = data
          /\ tasks' = tasks ]_vars

\* C17: for every combination of the token flags the classifier's result is
\* that of the five steps in order, which is: hasMail is hasMailToken and
\* not hasNoMailTag when a token matched and not hasNoMailTag otherwise;
\* hasText (hasVM) holds iff noText (noVM) does not and no token matched or
\* the text (vm) token matched or hasMail holds.  So hasNoMailTag implies not
\* hasMail, noText implies not hasText and noVM implies not hasVM.
C17_FiveStepClassifier ==
    res.done =>
        LET mail == IF arg.anyToken THEN arg.hasMailToken /\ ~arg.hasNoMailTag
                    ELSE ~arg.hasNoMailTag
        IN  /\ res.flags.hasMail = mail
            /\ res.flags.hasText =
                  (~arg.noText /\ (~arg.anyToken \/ arg.hasTextToken \/ mail))
            /\ res.flags.hasVM =
                  (~arg.noVM /\ (~arg.anyToken \/ arg.hasVmToken \/ mail))
            /\ arg.hasNoMailTag => ~res.flags.hasMail
            /\ arg.noText => ~res.flags.hasText
            /\ arg.noVM => ~res.flags.hasVM

\* C17 witness: mail with 'no text', the flags of 'Mail, No Text': the text
\* token matched and mail would force text, and the negation wins
C17_Witness ==
    /\ res.done
    /\ arg.hasMailToken /\ arg.hasTextToken /\ arg.anyToken /\ arg.noText
    /\ ~arg.hasNoMailTag /\ ~arg.noVM /\ ~arg.hasVmToken
    /\ res.flags = [hasMail |-> TRUE, hasText |-> FALSE, hasVM |-> TRUE]

\* campaign c ends in ' - X', X a single letter
endsInLetterSuffix(c) ==
    /\ Len(c) >= 4
    /\ SubSeq(c, Len(c) - 3, Len(c) - 1) = <<" ", "-", " ">>
    /\ c[Len(c)] \in Upper \cup Lower

\* the positions of the ASCII letters of p
lettersOf(p) == {i \in Indexes(p) : p[i] \in Upper \cup Lower}

C19_ParseableDateIsKept ==
    res.done =>
        \A i \in Indexes(arg.rows) :
            LET r        == arg.rows[i]
                primary  == tryParseDate(Field(r, "Date"))
                adjusted == tryParseDate(Field(r, "Red - Adjusted Dates"))
            IN  primary # NoDate =>
                    \E k \in Indexes(res.data) :
                        /\ res.data[k].id = i - 1
                        /\ res.data[k].mailDate =
                              (IF adjusted # NoDate THEN adjusted ELSE primary)

\* Monday 2025-09-01
AMonday == DaysFromCivil(2025, 9, 1)

isMonday(d) == (d - AMonday) % 7 = 0

\* the Mondays whose week holds a day of the month of date v
mondaysOfMonth(v) ==
    {m \in (startOfMonth(v) - 6)..endOfMonth(v) :
        /\ isMonday(m)
        /\ \E day \in m..(m + 6) : yearMonth(day) = yearMonth(v)}

\* C20: the weekly mail aggregate of a displayed month lists, in ascending
\* order, exactly the Monday-start weeks that hold a day of that month, weeks
\* without an event included (total 0); a week's total is the sum of count
\* over the hasMail events dated in that week and in the displayed month.
C20_WeeksOfMonth ==
    res.done =>
        LET ws == res.weeks
            d  == res.data
            v  == arg.viewDate
        IN  /\ {ws[i].start : i \in Indexes(ws)} = mondaysOfMonth(v)
            /\ Len(ws) = Cardinality(mondaysOfMonth(v))
            /\ \A i, j \in Indexes(ws) : i < j => ws[i].start < ws[j].start
            /\ \A i \in Indexes(ws) :
                  /\ ws[i].end = ws[i].start + 6
                  /\ ws[i].total =
                        SumSeq([k \in Indexes(d) |->
                            IF /\ d[k].hasMail
                               /\ d[k].mailDate \in ws[i].start..(ws[i].start + 6)
                               /\ yearMonth(d[k].mailDate) = yearMonth(v)
                            THEN d[k].count ELSE 0])

\* C20 witness: September 2025 with mail on 30 September and on 1 October:
\* the last week counts the first and not the second, and a week is empty
C20_Witness ==
    /\ res.done
    /\ yearMonth(arg.viewDate) = <<2025, 9>>
    /\ \E k \in Indexes(res.data) :
         res.data[k].hasMail /\ res.data[k].mailDate = DaysFromCivil(2025, 10, 1)
    /\ Len(res.weeks) = 5
    /\ res.weeks[5].start = DaysFromCivil(2025, 9, 29)
    /\ res.weeks[5].total = 700
    /\ \E i \in Indexes(res.weeks) : res.weeks[i].total = 0

\* the events of d whose group identity is key
membersOf(d, key) == {k \in Indexes(d) : groupKey(d[k].campaign, d[k].part) = key}

\* the n-th smallest event date among the events ks of d
nthDate(d, ks, n) ==
    CHOOSE x \in {d[k].mailDate : k \in ks} :
        /\ Cardinality({k \in ks : d[k].mailDate < x}) < n
        /\ Cardinality({k \in ks : d[k].mailDate <= x}) >= n

\* the five date cells of a matrix row
shownDates(row) == <<row.d1, row.d2, row.d3, row.d4, row.d5>>

\* C21: every normalized event belongs to exactly one group of the cadence
\* matrix, that of its group identity; a group row shows the first five event
\* dates of the group in ascending order (fewer for a smaller group) and a
\* total that is the sum of count over all events of the group; the group
\* totals add up to the sum of count over all events.
C21_CadenceMatrix ==
    res.done =>
        LET d == res.data
            m == res.matrix
        IN  /\ \A k \in Indexes(d) :
                  Cardinality({g \in Indexes(m) :
                                 m[g].key = groupKey(d[k].campaign, d[k].part)}) = 1
            /\ \A g \in Indexes(m) :
                  LET ks == membersOf(d, m[g].key)
                  IN  /\ ks # {}
                      /\ \A n \in 1..5 :
                            shownDates(m[g])[n] =
                              (IF n <= Cardinality(ks)
                               THEN formatMDY(nthDate(d, ks, n)) ELSE <<>>)
                      /\ m[g].total =
                            SumSeq([k \in Indexes(d) |->
                                      IF k \in ks THEN d[k].count ELSE 0])
            /\ SumSeq([g \in Indexes(m) |-> m[g].total])
                  = SumSeq([k \in Indexes(d) |-> d[k].count])

\* C21 witness: a group of six events whose rows are not in date order, next
\* to no other group: five dates are shown and the total counts all six
C21_Witness ==
    /\ res.done
    /\ Len(res.data) = 6
    /\ Len(res.matrix) = 1
    /\ res.data[1].mailDate > res.data[2].mailDate
    /\ res.matrix[1].d1 = <<"8","/","2","6","/","2","0","2","5">>
    /\ res.matrix[1].d5 # <<>>
    /\ res.matrix[1].total = SumSeq([k \in Indexes(res.data) |-> res.data[k].count])

\* the days of a window
daysOf(range) == range.start..range.end

\* C22: the windows of classifyWeek (the Monday-to-Sunday week of today, the
\* weeks starting 7 and 14 days later) are pairwise disjoint and cover
\* exactly the 21 days from the Monday of today's week; d is 'this', 'next'
\* or 'next2' exactly when it lies in the first, second or third window, and
\* none for every other date.
C22_WeekWindows ==
    res.done =>
        LET monday == CHOOSE m \in (arg.now - 6)..arg.now : (m - DaysFromCivil(2025, 9, 1)) % 7 = 0
            w1     == daysOf(weekBounds(arg.now))
            w2     == daysOf(weekBounds(addDays(arg.now, 7)))
            w3     == daysOf(weekBounds(addDays(arg.now, 14)))
        IN  /\ w1 = monday..(monday + 6)
            /\ w2 = (monday + 7)..(monday + 13)
            /\ w3 = (monday + 14)..(monday + 20)
            /\ w1 \cap w2 = {} /\ w1 \cap w3 = {} /\ w2 \cap w3 = {}
            /\ w1 \cup w2 \cup w3 = monday..(monday + 20)
            /\ res.wk = "this" <=> arg.d \in w1
            /\ res.wk = "next" <=> arg.d \in w2
            /\ res.wk = "next2" <=> arg.d \in w3
            /\ res.wk = "" <=> arg.d \notin monday..(monday + 20)

\* C22 witness: today is a Thursday and d, four days later, the Monday of the
\* next week
C22_Witness ==
    /\ res.done
    /\ arg.now = DaysFromCivil(2025, 9, 4)
    /\ arg.d = DaysFromCivil(2025, 9, 8)
    /\ res.wk = "next"

\* the total of the monthAgg entry of year-month ym, 0 when there is none
entryTotal(agg, ym) ==
    IF \E i \in Indexes(agg) : yearMonthOfKey(agg[i].key) = ym
    THEN agg[CHOOSE i \in Indexes(agg) : yearMonthOfKey(agg[i].key) = ym].total
    ELSE 0

\* C23: for every row list and displayed month the three mail totals agree:
\* the weekly totals of weeksForMonth add up to monthlyTotal, and
\* monthlyTotal is the total of the monthAgg entry of that year-month (0
\* when monthAgg has none).
C23_TotalsAgree ==
    res.done =>
        /\ SumSeq([i \in Indexes(res.weeks) |-> res.weeks[i].total]) = res.monthlyTotal
        /\ res.monthlyTotal = entryTotal(res.monthAgg, yearMonth(arg.viewDate))

\* C23 witness: September 2025 with mail in September, mail in another
\* month and a September event without mail: the total is the September mail
C23_Witness ==
    /\ res.done
    /\ yearMonth(arg.viewDate) = <<2025, 9>>
    /\ res.monthlyTotal = 700
    /\ Len(res.monthAgg) = 2
    /\ \E k \in Indexes(res.data) :
         ~res.data[k].hasMail /\ yearMonth(res.data[k].mailDate) = <<2025, 9>>

\* the idKeys of the text and vm tasks derived from event e
followUpKeys(ts, e) ==
    {ts[i].idKey : i \in {j \in Indexes(ts) : ts[j].ref = e /\ ts[j].type \in {"text", "vm"}}}

\* event e is a row of the schedule
shown(schedule, e) == \E i \in Indexes(schedule) : schedule[i] = e

\* C24: the text and vm keys the 'hide completed' filter recomputes for an
\* event are the idKeys of the text and vm tasks derived from it; so with
\* 'hide completed' on a row is hidden iff every text/vm task of its event
\* is in doneKeys (always, for an event with neither), and with it off no
\* row is hidden by completion state.
C24_HideCompletedUsesTaskKeys ==
    res.done =>
        \A k \in Indexes(res.data) :
            LET e       == res.data[k]
                keys    == (IF e.hasText THEN {tKey(e)} ELSE {})
                             \cup (IF e.hasVM THEN {vKey(e)} ELSE {})
                notPast == ~arg.hidePast \/ e.mailDate >= today
                allDone == \A key \in followUpKeys(res.tasks, e) :
                              includes(arg.doneKeys, key)
            IN  /\ keys = followUpKeys(res.tasks, e)
                /\ notPast =>
                      (shown(res.schedule, e) <=> ~(arg.hideCompleted /\ allDone))

\* C24 witness: 'hide completed' is on and 'hide past' off; an event with mail whose text and vm
\* tasks are both done is hidden, and an event with an open task is shown
C24_Witness ==
    /\ res.done
    /\ arg.hideCompleted
    /\ ~arg.hidePast
    /\ \E j, k \in Indexes(res.data) :
         /\ res.data[j].hasMail /\ res.data[j].hasText /\ res.data[j].hasVM
         /\ includes(arg.doneKeys, tKey(res.data[j]))
         /\ includes(arg.doneKeys, vKey(res.data[j]))
         /\ ~shown(res.schedule, res.data[j])
         /\ followUpKeys(res.tasks, res.data[k]) # {}
         /\ shown(res.schedule, res.data[k])

\* the keys a completion list holds
keySet(list) == {list[i] : i \in Indexes(list)}

\* the idKeys of the text and vm tasks of a task list
followUpKeysOf(ts) ==
    {ts[i].idKey : i \in {j \in Indexes(ts) : ts[j].type \in {"text", "vm"}}}

\* a key that begins with the type of a text or vm task
isFollowUpKey(k) ==
    \/ Len(k) >= 5 /\ SubSeq(k, 1, 5) = TypeName("text") \o Bar
    \/ Len(k) >= 3 /\ SubSeq(k, 1, 3) = TypeName("vm") \o Bar

\* C25: starting from an empty completion set, after any sequence of
\* checkbox toggles and row reloads doneKeys holds no key twice and only
\* idKeys of text or vm tasks (never a mail key); a key is in doneKeys iff
\* its checkbox has been toggled an odd number of times, so toggling one
\* task twice gives the set of before; a step adds only the idKey of a text
\* or vm task of the rows then loaded, and never removes the key of a task
\* that the loaded rows do not have.
C25_DoneKeysAreOddToggles ==
    /\ [](/\ \A i, j \in Indexes(doneKeys) : i # j => doneKeys[i] # doneKeys[j]
          /\ \A i \in Indexes(doneKeys) : isFollowUpKey(doneKeys[i])
          /\ keySet(doneKeys) = oddToggles
          /\ \A k \in followUpKeysOf(tasks) :
                keySet(toggled(toggled(doneKeys, k), k)) = keySet(doneKeys))
    /\ [][ /\ keySet(doneKeys') \ keySet(doneKeys) \subseteq followUpKeysOf(tasks)
           /\ keySet(doneKeys) \ keySet(doneKeys') \subseteq keysOf(tasks) ]_vars

\* C25 witness: after a reload, doneKeys holds a key toggled on the loaded
\* rows next to the key of a sample task that the loaded rows do not have
C25_Witness ==
    /\ fetch = "idle"
    /\ rows # sampleRows
    /\ Len(doneKeys) = 2
    /\ keySet(doneKeys) = oddToggles
    /\ \E i, j \in Indexes(doneKeys) :
         /\ doneKeys[i] \in followUpKeysOf(tasks)
         /\ doneKeys[j] \notin keysOf(tasks)

====
